---- MODULE Spec2Model ----
(***************************************************************************)
(* State-machine model of the client-side services of knobo/userport:      *)
(*   UploadURLService (userport/static/js/upload_url_service.js)           *)
(*   ChatService      (the EventTarget version with postMessage)           *)
(* index.js mounts one view per route, so a behaviour lives on one route.  *)
(* The backend is the environment: it answers each request once, at some   *)
(* moment between the call and the completion handler.                     *)
(***************************************************************************)
EXTENDS Naturals, Integers, Sequences, FiniteSets, Bags, TLC

VARIABLES route, mounted, uploads, reqs, timers, srv, srvNextId, calls,
          chatState, chatMessages, sends, sent,
          api_key, panel, kreqs, ksrv, ksrvNextId, kcalls, out

vars == <<route, mounted, uploads, reqs, timers, srv, srvNextId, calls,
          chatState, chatMessages, sends, sent,
          api_key, panel, kreqs, ksrv, ksrvNextId, kcalls, out>>

uploadVars == <<uploads, reqs, timers, srv, srvNextId, calls>>
chatVars == <<chatState, chatMessages, sends, sent>>
keyVars == <<api_key, panel, kreqs, ksrv, ksrvNextId, kcalls>>

(* ------------------------------ bounds -------------------------------- *)
\* number of user commands (upload click, delete) issued on the uploads page
MaxCalls == 2
\* number of chat messages posted
MaxSends == 3
\* number of clicks on the buttons of the API key page
MaxKeyCalls == 3

(* ----------------------------- constants ------------------------------ *)
\* `undefined` id of a body that is no upload record
NoId == 0
\* no object captured
NoObj == 0
\* api_key null in the service, the empty key "" in a response
NoKey == 0

Routes == {"/uploads", "/chat", "/api-key"}
Terminal == {"COMPLETE", "FAILED"}
\* what a response can be: a success body, an error envelope with message,
\* an error envelope without message, a body that is not JSON
ErrKinds == {"domainErr", "errNoMsg", "nonJSON"}
Kinds == {"ok"} \cup ErrKinds

\* a variant that rethrows the parse error of response.json()
ThrownParseError(kind) ==
  CASE kind = "nonJSON" -> "SyntaxError"
    [] kind = "domainErr" -> "error_code: message"
    [] OTHER -> "Invalid response format"

\* the error a failing completion throws: the status line of a body that is
\* not JSON, the code and message of an error envelope, or the complaint
\* about a body without the expected field
Thrown(kind) ==
  CASE kind = "nonJSON" -> "status: Server error"
    [] kind = "domainErr" -> "error_code: message"
    [] OTHER -> "Invalid response format"

NoOut == [op |-> "none", id |-> NoId, events |-> <<>>, error |-> "none"]

(* ------------------------------ helpers ------------------------------- *)
Min(S) == CHOOSE x \in S : \A y \in S : x <= y

\* ids of the entries of a collection
IdsOf(s) == {s[i].id : i \in 1..Len(s)}

\* Array.prototype.findIndex on the id; 0 stands for JavaScript's -1
FindIndex(s, id) ==
  IF \E i \in 1..Len(s) : s[i].id = id
  THEN Min({i \in 1..Len(s) : s[i].id = id})
  ELSE 0

\* Array.prototype.indexOf: strict equality of object references
IndexOf(s, oid) ==
  IF \E i \in 1..Len(s) : s[i].oid = oid
  THEN Min({i \in 1..Len(s) : s[i].oid = oid})
  ELSE 0

\* splice(index, 1)
Splice(s, i) == SubSeq(s, 1, i - 1) \o SubSeq(s, i + 1, Len(s))

\* the array without its element at index i, the array itself for no index
Without(s, i) == IF i = 0 THEN s ELSE Splice(s, i)

\* a variant that pushes the object instead of assigning it at the index
SetAtPushes(s, i, x) == Append(s, x)

\* this.uploads[index] = upload, for an index inside the array
SetAt(s, i, x) == [s EXCEPT ![i] = x]

\* object references held by the closures of pending deletes
Captured == {r.obj : r \in BagToSet(reqs)}

\* object references of the entries of an array
ObjsOf(s) == {s[i].oid : i \in 1..Len(s)}

\* the k-th reference not in use (response.json() builds new objects)
RECURSIVE Fresh(_, _)
Fresh(used, k) ==
  LET m == Min({n \in 1..(Cardinality(used) + 1) : n \notin used})
  IN IF k = 1 THEN m ELSE Fresh(used \cup {m}, k - 1)

\* a variant that keeps the entries held before and adds the parsed ones
ParsedAppended(data, used) ==
  uploads \o [i \in 1..Len(data) |->
                [oid |-> Fresh(used \cup ObjsOf(uploads), i), id |-> data[i].id,
                 status |-> data[i].status, error_code |-> "none"]]

\* the objects parsed from a JSON array of records
Parsed(data, used) ==
  [i \in 1..Len(data) |->
     [oid |-> Fresh(used, i), id |-> data[i].id, status |-> data[i].status,
      error_code |-> "none"]]

\* upload.id of the body of a create or status response
BodyId(r, kind) == IF kind = "ok" THEN r.data[1].id ELSE NoId

\* the object parsed from the body of a create or status response: the
\* record, or an error envelope without message, which carries the error
\* code of its endpoint and neither id nor status
Body(r, kind, used) ==
  IF kind = "ok"
  THEN [oid |-> Fresh(used, 1), id |-> BodyId(r, kind), status |-> r.data[1].status,
        error_code |-> "none"]
  ELSE [oid |-> Fresh(used, 1), id |-> BodyId(r, kind), status |-> "undefined",
        error_code |-> r.op]

(* ------------------------------ requests ------------------------------ *)
Req(op, id, obj, csrf) ==
  [op |-> op, phase |-> "sent", id |-> id, obj |-> obj, csrf |-> csrf,
   data |-> <<>>]

\* fetch(...?id=upload_id) of check_status: a read, without the CSRF header
StatusReq(id) == Req("status", id, NoObj, FALSE)

Answer(r, data) == [r EXCEPT !.phase = "answered", !.data = data]

One(x) == SetToBag({x})

\* check_status called once for every entry of a sequence of records
RECURSIVE CheckAll(_)
CheckAll(s) ==
  IF s = <<>> THEN EmptyBag
  ELSE One(StatusReq(Head(s).id)) (+) CheckAll(Tail(s))

\* the status requests in flight for an id, as a bag
StatusReqs(rq, id) ==
  LET S == {r \in BagToSet(rq) : r.op = "status" /\ r.id = id}
  IN [r \in S |-> CopiesIn(r, rq)]

\* number of poll loops alive for an id: every loop of check_status is either
\* a status request in flight or a pending timer
PollCount(rq, tm, id) == BagCardinality(StatusReqs(rq, id)) + CopiesIn(id, tm)

(* -------------------------------- Init -------------------------------- *)
\* the uploads the backend holds when the page is loaded
InitialServer == {<<>>}

\* the organization has no API key yet, or has key 1
InitialKeys == {NoKey, 1}

Init ==
  /\ route \in Routes
  /\ mounted = FALSE
  /\ uploads = <<>>
  /\ reqs = EmptyBag
  /\ timers = EmptyBag
  /\ srv \in IF route = "/uploads" THEN InitialServer ELSE {<<>>}
  /\ srvNextId = Len(srv) + 1
  /\ calls = 0
  /\ chatState = "CLOSED"
  /\ chatMessages = <<>>
  /\ sends = {}
  /\ sent = 0
  /\ api_key = NoKey
  /\ panel = "none"
  /\ kreqs = EmptyBag
  /\ ksrv \in IF route = "/api-key" THEN InitialKeys ELSE {NoKey}
  /\ ksrvNextId = ksrv + 1
  /\ kcalls = 0
  /\ out = NoOut

(* ------------------------- UploadURLService --------------------------- *)
\* new UploadURL() of index.js: the view builds the service, subscribes and
\* calls list_urls() once: fetch_start, then the GET of the collection (a
\* read, without the CSRF header)
list_urls ==
  /\ route = "/uploads"
  /\ ~mounted
  /\ mounted' = TRUE
  /\ reqs' = reqs (+) One(Req("list", NoId, NoObj, FALSE))
  /\ out' = [op |-> "list_urls", id |-> NoId, events |-> <<"fetch_start">>, error |-> "none"]
  /\ UNCHANGED <<route, uploads, timers, srv, srvNextId, calls>>
  /\ UNCHANGED chatVars /\ UNCHANGED keyVars

\* upload_url(web_page_url): fetch_start, then the POST with the CSRF header
upload_url ==
  /\ route = "/uploads" /\ mounted
  /\ calls < MaxCalls
  /\ calls' = calls + 1
  /\ reqs' = reqs (+) One(Req("create", NoId, NoObj, TRUE))
  /\ out' = [op |-> "upload_url", id |-> NoId, events |-> <<"fetch_start">>, error |-> "none"]
  /\ UNCHANGED <<route, mounted, uploads, timers, srv, srvNextId>>
  /\ UNCHANGED chatVars /\ UNCHANGED keyVars

\* what the upload input may hold at a click: nothing, or a URL
Inputs == {"", "u"}

\* a variant of the view's validation that lets every input through
EmptyNever(value) == FALSE

\* this.uploadInput.value === ""
Empty(value) == value = ""

\* UploadURL.handleUploadButtonClick: the only caller of upload_url; an empty
\* input is answered by alert("URL cannot be empty") and the service is not
\* called
handleUploadButtonClick(value) ==
  IF Empty(value)
  THEN /\ route = "/uploads" /\ mounted
       /\ calls < MaxCalls
       /\ calls' = calls + 1
       /\ out' = [op |-> "handleUploadButtonClick", id |-> NoId, events |-> <<"alert">>, error |-> "none"]
       /\ UNCHANGED <<route, mounted, uploads, reqs, timers, srv, srvNextId>>
       /\ UNCHANGED chatVars /\ UNCHANGED keyVars
  ELSE upload_url

\* a variant that takes the entry out of the collection at the call, before
\* the server has answered
delete_urlOptimistic(k) ==
  /\ route = "/uploads" /\ mounted
  /\ calls < MaxCalls
  /\ k \in 1..Len(uploads)
  /\ calls' = calls + 1
  /\ uploads' = Splice(uploads, k)
  /\ reqs' = reqs (+) One(Req("delete", uploads[k].id, uploads[k].oid, TRUE))
  /\ out' = [op |-> "delete_url", id |-> uploads[k].id, events |-> <<"fetch_start">>, error |-> "none"]
  /\ UNCHANGED <<route, mounted, timers, srv, srvNextId>>
  /\ UNCHANGED chatVars /\ UNCHANGED keyVars

\* delete_url(upload): the view passes the object it rendered, one of the
\* entries of the collection; fetch_start, then the DELETE keyed by upload.id
delete_url(k) ==
  /\ route = "/uploads" /\ mounted
  /\ calls < MaxCalls
  /\ k \in 1..Len(uploads)
  /\ calls' = calls + 1
  /\ reqs' = reqs (+) One(Req("delete", uploads[k].id, uploads[k].oid, TRUE))
  /\ out' = [op |-> "delete_url", id |-> uploads[k].id, events |-> <<"fetch_start">>, error |-> "none"]
  /\ UNCHANGED <<route, mounted, uploads, timers, srv, srvNextId>>
  /\ UNCHANGED chatVars /\ UNCHANGED keyVars

\* how a request completes: with the body the server answered, or, at any
\* moment after the call, with an error envelope (with or without message)
\* or a body that is not JSON, which carry nothing of the server's state
Completes(r, kind) ==
  IF kind = "ok" THEN r.phase = "answered" ELSE kind \in ErrKinds

\* a variant that never throws
checkErrorCodeNever(kind) == FALSE

\* a variant that throws whenever error_code is there
checkErrorCodeStrict(kind) == kind \in {"domainErr", "errNoMsg"}

\* checkErrorCode(data): throws only when error_code and message are both there
checkErrorCode(kind) == kind = "domainErr"

\* events of a completion of list / create / delete that ends in the .catch:
\* a body that is not JSON rejects before the .then handler runs; an error
\* thrown inside the .then handler comes after its dispatch_fetch_end_event
FailEvents(kind) ==
  IF kind = "nonJSON" THEN <<"fetch_complete", "reject">>
  ELSE <<"fetch_complete", "fetch_complete", "reject">>

\* In the steps below `seen` is what getUploads() returns to the listeners
\* of render_uploads: the event is dispatched after the assignment to
\* this.uploads, so they read the collection the step leaves behind.

\* the .then / .catch of list_urls for an answered request r
list_done(r, kind) ==
  /\ r \in BagToSet(reqs)
  /\ r.op = "list" /\ Completes(r, kind)
  /\ IF kind = "ok"
     THEN LET fresh == Parsed(r.data, Captured)
          IN /\ uploads' = fresh
             /\ reqs' = (reqs (-) One(r)) (+) CheckAll(fresh)
             /\ out' = [op |-> "list_done", id |-> NoId,
                        events |-> <<"fetch_complete", "render_uploads">>, error |-> "none",
                        seen |-> uploads']
     ELSE \* not JSON, checkErrorCode threw, or "uploads" is not in data
          /\ reqs' = reqs (-) One(r)
          /\ out' = [op |-> "list_done", id |-> NoId, events |-> FailEvents(kind), error |-> Thrown(kind)]
          /\ UNCHANGED uploads
  /\ UNCHANGED <<route, mounted, timers, srv, srvNextId, calls>>
  /\ UNCHANGED chatVars /\ UNCHANGED keyVars

\* a variant that puts the new record in front
PushFront(s, upload) == <<upload>> \o s

\* this.uploads.push(upload)
Push(s, upload) == Append(s, upload)

\* the .then / .catch of upload_url for an answered request r
upload_done(r, kind) ==
  /\ r \in BagToSet(reqs)
  /\ r.op = "create" /\ Completes(r, kind)
  /\ IF kind = "nonJSON" \/ checkErrorCode(kind)
     THEN /\ reqs' = reqs (-) One(r)
          /\ out' = [op |-> "upload_done", id |-> NoId, events |-> FailEvents(kind), error |-> Thrown(kind)]
          /\ UNCHANGED uploads
     ELSE LET upload == Body(r, kind, ObjsOf(uploads) \cup Captured)
          IN /\ uploads' = Push(uploads, upload)
             /\ reqs' = (reqs (-) One(r)) (+) One(StatusReq(upload.id))
             /\ out' = [op |-> "upload_done", id |-> upload.id,
                        events |-> <<"fetch_complete", "render_uploads">>, error |-> "none",
                        seen |-> uploads']
  /\ UNCHANGED <<route, mounted, timers, srv, srvNextId, calls>>
  /\ UNCHANGED chatVars /\ UNCHANGED keyVars

\* the .then / .catch of delete_url for an answered request r
delete_done(r, kind) ==
  /\ r \in BagToSet(reqs)
  /\ r.op = "delete" /\ Completes(r, kind)
  /\ reqs' = reqs (-) One(r)
  /\ IF kind = "nonJSON" \/ checkErrorCode(kind)
     THEN /\ out' = [op |-> "delete_done", id |-> r.id, events |-> FailEvents(kind), error |-> Thrown(kind)]
          /\ UNCHANGED uploads
     ELSE LET index == IndexOf(uploads, r.obj)
          IN /\ uploads' = IF index > 0 THEN Splice(uploads, index) ELSE uploads
             /\ out' = [op |-> "delete_done", id |-> r.id,
                        events |-> <<"fetch_complete", "render_uploads">>, error |-> "none",
                        seen |-> uploads']
  /\ UNCHANGED <<route, mounted, timers, srv, srvNextId, calls>>
  /\ UNCHANGED chatVars /\ UNCHANGED keyVars

\* a variant of the "polling complete" branch that tells no listener
CompleteEventsNone(index) == <<>>

\* a variant without the alert of the missing index
CompleteEventsSilent(index) == <<"render_uploads">>

\* what the "polling complete" branch emits: the alert of a missing index
\* comes first, the render event follows in both cases
CompleteEvents(index) ==
  IF index = 0 THEN <<"alert", "render_uploads">> ELSE <<"render_uploads">>

\* this.uploads[index] = upload: index -1 sets the property "-1" of the
\* array object, which nothing reads, and leaves its elements and its length
\* alone
Assigned(s, index, upload) == IF index = 0 THEN s ELSE SetAt(s, index, upload)

\* a variant that takes only COMPLETE for the end of the polling
FinishedOnlyComplete(upload) == upload.status = "COMPLETE"

\* a variant that takes every answer for the end of the polling
FinishedAlways(upload) == TRUE

\* if (upload.status != "IN_PROGRESS"): polling complete
Finished(upload) == upload.status # "IN_PROGRESS"

\* a variant with one timer slot for the whole service: a new timer takes
\* the place of the pending ones
ScheduledCoalesced(t, id) == One(id)

\* setTimeout(this.check_status.bind(this), 20000, upload_id): one more
\* timer, of its own, for that id
Scheduled(t, id) == t (+) One(id)

\* a variant of the completion of check_status that tries again after the
\* interval when the check has failed
status_doneRetries(r, kind) ==
  /\ r \in BagToSet(reqs)
  /\ r.op = "status" /\ Completes(r, kind)
  /\ reqs' = reqs (-) One(r)
  /\ IF kind = "nonJSON" \/ checkErrorCode(kind)
     THEN /\ out' = [op |-> "status_done", id |-> r.id, events |-> <<"reject">>, error |-> Thrown(kind)]
          /\ timers' = Scheduled(timers, r.id)
          /\ UNCHANGED uploads
     ELSE LET index == FindIndex(uploads, BodyId(r, kind))
              \* the entry the assignment drops is garbage afterwards
              upload == Body(r, kind, ObjsOf(Without(uploads, index)) \cup Captured)
          IN IF Finished(upload)
             THEN /\ uploads' = Assigned(uploads, index, upload)
                  /\ out' = [op |-> "status_done", id |-> upload.id,
                             events |-> CompleteEvents(index), error |-> "none",
                             seen |-> uploads']
                  /\ UNCHANGED timers
             ELSE /\ timers' = Scheduled(timers, r.id)
                  /\ out' = [op |-> "status_done", id |-> r.id, events |-> <<>>, error |-> "none"]
                  /\ UNCHANGED uploads
  /\ UNCHANGED <<route, mounted, srv, srvNextId, calls>>
  /\ UNCHANGED chatVars /\ UNCHANGED keyVars

\* the .then / .catch of check_status for an answered request r
status_done(r, kind) ==
  /\ r \in BagToSet(reqs)
  /\ r.op = "status" /\ Completes(r, kind)
  /\ reqs' = reqs (-) One(r)
  /\ IF kind = "nonJSON" \/ checkErrorCode(kind)
     THEN /\ out' = [op |-> "status_done", id |-> r.id, events |-> <<"reject">>, error |-> Thrown(kind)]
          /\ UNCHANGED <<uploads, timers>>
     ELSE LET index == FindIndex(uploads, BodyId(r, kind))
              \* the entry the assignment drops is garbage afterwards
              upload == Body(r, kind, ObjsOf(Without(uploads, index)) \cup Captured)
          IN IF Finished(upload)
             THEN /\ uploads' = Assigned(uploads, index, upload)
                  /\ out' = [op |-> "status_done", id |-> upload.id,
                             events |-> CompleteEvents(index), error |-> "none",
                             seen |-> uploads']
                  /\ UNCHANGED timers
             ELSE /\ timers' = Scheduled(timers, r.id)
                  /\ out' = [op |-> "status_done", id |-> r.id, events |-> <<>>, error |-> "none"]
                  /\ UNCHANGED uploads
  /\ UNCHANGED <<route, mounted, srv, srvNextId, calls>>
  /\ UNCHANGED chatVars /\ UNCHANGED keyVars

\* the timer of setTimeout(this.check_status.bind(this), 20000, upload_id)
\* expires: check_status issues the next status request
timer_fire(id) ==
  /\ BagIn(id, timers)
  /\ timers' = timers (-) One(id)
  /\ reqs' = reqs (+) One(StatusReq(id))
  /\ out' = [op |-> "check_status", id |-> id, events |-> <<>>, error |-> "none"]
  /\ UNCHANGED <<route, mounted, uploads, srv, srvNextId, calls>>
  /\ UNCHANGED chatVars /\ UNCHANGED keyVars

(* ----------------------- the backend (environment) -------------------- *)
\* a step of the backend touches nothing of the page and emits nothing
SrvFrame ==
  /\ out' = NoOut
  /\ UNCHANGED <<route, mounted, uploads, timers, calls>>

\* LIST: the server's collection at the moment the request is served
srv_list(r) ==
  /\ r \in BagToSet(reqs)
  /\ r.op = "list" /\ r.phase = "sent"
  /\ reqs' = (reqs (-) One(r)) (+) One(Answer(r, srv))
  /\ UNCHANGED <<srv, srvNextId>>
  /\ SrvFrame /\ UNCHANGED chatVars /\ UNCHANGED keyVars

\* CREATE: a new record with the next id; the answer shows it in progress,
\* or already COMPLETE or FAILED when its processing ended before the answer
srv_create(r, status) ==
  /\ r \in BagToSet(reqs)
  /\ r.op = "create" /\ r.phase = "sent"
  /\ status \in Terminal \cup {"IN_PROGRESS"}
  /\ LET rec == [id |-> srvNextId, status |-> status]
     IN /\ srv' = Append(srv, rec)
        /\ reqs' = (reqs (-) One(r)) (+) One(Answer(r, <<rec>>))
  /\ srvNextId' = srvNextId + 1
  /\ SrvFrame /\ UNCHANGED chatVars /\ UNCHANGED keyVars

\* GET_STATUS(id): the current record of that id
srv_status(r) ==
  /\ r \in BagToSet(reqs)
  /\ r.op = "status" /\ r.phase = "sent"
  /\ r.id \in IdsOf(srv)
  /\ reqs' = (reqs (-) One(r)) (+) One(Answer(r, <<srv[FindIndex(srv, r.id)]>>))
  /\ UNCHANGED <<srv, srvNextId>>
  /\ SrvFrame /\ UNCHANGED chatVars /\ UNCHANGED keyVars

\* DELETE(id): the record is removed on the server
srv_delete(r) ==
  /\ r \in BagToSet(reqs)
  /\ r.op = "delete" /\ r.phase = "sent"
  /\ r.id \in IdsOf(srv)
  /\ srv' = Splice(srv, FindIndex(srv, r.id))
  /\ reqs' = (reqs (-) One(r)) (+) One(Answer(r, <<>>))
  /\ UNCHANGED srvNextId
  /\ SrvFrame /\ UNCHANGED chatVars /\ UNCHANGED keyVars

\* the server's processing of an upload ends: IN_PROGRESS -> COMPLETE | FAILED
srv_finish(i, status) ==
  /\ i \in 1..Len(srv)
  /\ srv[i].status = "IN_PROGRESS"
  /\ status \in Terminal
  /\ srv' = [srv EXCEPT ![i].status = status]
  /\ UNCHANGED <<reqs, srvNextId>>
  /\ SrvFrame /\ UNCHANGED chatVars /\ UNCHANGED keyVars

(* ----------------------------- ChatService ---------------------------- *)
\* the record pushed by postMessage(user_query); the text of the k-th post
\* is k, so that every post is told from the others
HumanMessage(k) == [text |-> k, message_creator_type |-> "HUMAN", created |-> "null"]

\* the parsed body pushed by the .then handler, which checks nothing: the
\* reply of the server, or an error envelope
Reply(k, kind) ==
  [text |-> k, message_creator_type |-> IF kind = "ok" THEN "BOT" ELSE "undefined",
   created |-> IF kind = "ok" THEN "server" ELSE "undefined"]

\* Array.prototype.pop
Pop(s) == IF s = <<>> THEN s ELSE SubSeq(s, 1, Len(s) - 1)

\* this.chatMessages[this.chatMessages.length - 1].created = "Test"
StampLast(s) == [s EXCEPT ![Len(s)].created = "Test"]

\* a variant that only ever opens the panel
ToggledOpens(state) == "OPEN"

\* the state toggleState() assigns: OPEN for CLOSED, CLOSED for anything else
Toggled(state) == IF state = "CLOSED" THEN "OPEN" ELSE "CLOSED"

\* a variant that empties the message log when the panel is toggled
toggleStateClearsLog ==
  /\ route = "/chat"
  /\ chatState' = Toggled(chatState)
  /\ chatMessages' = <<>>
  /\ out' = [op |-> "toggleState", id |-> NoId, events |-> <<>>, error |-> "none",
             ret |-> chatState']
  /\ UNCHANGED <<sends, sent>>
  /\ UNCHANGED <<route, mounted>> /\ UNCHANGED uploadVars /\ UNCHANGED keyVars

\* ChatService.toggleState(): assigns the other state and returns
\* this.chatState, the state just assigned (ret)
toggleState ==
  /\ route = "/chat"
  /\ chatState' = Toggled(chatState)
  /\ out' = [op |-> "toggleState", id |-> NoId, events |-> <<>>, error |-> "none",
             ret |-> chatState']
  /\ UNCHANGED <<chatMessages, sends, sent>>
  /\ UNCHANGED <<route, mounted>> /\ UNCHANGED uploadVars /\ UNCHANGED keyVars

\* the headers of the POST of postMessage: the API key of the widget, and
\* no X-CSRFToken
PostHeaders == {"Content-Type", "X-API-KEY"}

\* ChatService.postMessage(user_query) up to the fetch: the human message is
\* pushed and userport_post_message_start dispatched before the request
postMessage ==
  /\ route = "/chat"
  /\ sent < MaxSends
  /\ sent' = sent + 1
  /\ chatMessages' = Append(chatMessages, HumanMessage(sent + 1))
  /\ sends' = sends \cup {sent + 1}
  /\ out' = [op |-> "postMessage", id |-> sent + 1,
             events |-> <<"userport_post_message_start">>, error |-> "none",
             headers |-> PostHeaders]
  /\ UNCHANGED chatState
  /\ UNCHANGED <<route, mounted>> /\ UNCHANGED uploadVars /\ UNCHANGED keyVars

\* a variant that dispatches the end event in the .then handler before the
\* handler throws, and again in the .catch
PostEventsTwice(failed) ==
  IF failed
  THEN <<"userport_post_message_end", "userport_post_message_end", "reject">>
  ELSE <<"userport_post_message_end">>

\* what a completion of postMessage emits: dispatch_end_event() is the last
\* statement of the .then handler, and the .catch calls it once before it
\* rethrows the error
PostEvents(failed) ==
  IF failed THEN <<"userport_post_message_end", "reject">>
  ELSE <<"userport_post_message_end">>

\* what an emitted event hands to its listeners: every event of the
\* services is built by new Event(type), which has no detail; an error
\* travels only in the rejected promise
EventDetail(e) == IF e = "reject" THEN "error" ELSE "none"

\* the error of a failed post: that of a body that is not JSON, or the
\* TypeError of the stamp on an empty log
PostThrown(kind) == IF kind = "nonJSON" THEN Thrown(kind) ELSE "TypeError"

\* the .then / .catch of postMessage for the k-th post: any JSON body takes
\* the .then handler; a body that is not JSON, or an error thrown by the
\* handler on an empty log, ends in the .catch
post_done(k, kind) ==
  /\ k \in sends
  /\ kind \in Kinds
  /\ sends' = sends \ {k}
  /\ IF kind # "nonJSON" /\ chatMessages # <<>>
     THEN /\ chatMessages' = Append(StampLast(chatMessages), Reply(k, kind))
          /\ out' = [op |-> "post_done", id |-> k, events |-> PostEvents(FALSE), error |-> "none"]
     ELSE /\ chatMessages' = Pop(chatMessages)
          /\ out' = [op |-> "post_done", id |-> k, events |-> PostEvents(TRUE), error |-> PostThrown(kind)]
  /\ UNCHANGED <<chatState, sent>>
  /\ UNCHANGED <<route, mounted>> /\ UNCHANGED uploadVars /\ UNCHANGED keyVars

(* ---------------------------- APIKeyService --------------------------- *)
\* the raw secret of key n, shown once; no key object equals a raw secret
RawValue(n) == MaxKeyCalls + 1 + n

\* a request to /api/v1/api-key and, once answered, the fields of its body
KeyReq(op, csrf) ==
  [op |-> op, key |-> NoKey, raw_value |-> NoKey, csrf |-> csrf, phase |-> "sent"]

KeyAnswer(r, key, raw_value) ==
  [r EXCEPT !.phase = "answered", !.key = key, !.raw_value = raw_value]

\* a variant that stores no key
StoredNothing(data) == NoKey

\* a variant that keeps what the service held before
StoredStale(data) == api_key

\* a variant that keeps the raw secret of the response
StoredRaw(data) == data.raw_value

\* this.api_key = data.key
Stored(data) == data.key

\* a variant whose .catch shows the create button after a failure
KeyFailEventsRenders(kind) ==
  <<"api_key_fetch_complete", "api_key_render_creation", "reject">>

\* events of a completion that ends in the .catch (as FailEvents)
KeyFailEvents(kind) ==
  IF kind = "nonJSON" THEN <<"api_key_fetch_complete", "reject">>
  ELSE <<"api_key_fetch_complete", "api_key_fetch_complete", "reject">>

\* what is left unchanged by every step of the API key page
KeyFrame ==
  /\ UNCHANGED <<route, ksrv, ksrvNextId>>
  /\ UNCHANGED uploadVars /\ UNCHANGED chatVars

\* new APIKeyView() of index.js: the view builds the service, subscribes and
\* calls fetch_api_key() once: fetch start, then the GET
fetch_api_key ==
  /\ route = "/api-key"
  /\ ~mounted
  /\ mounted' = TRUE
  /\ kreqs' = kreqs (+) One(KeyReq("key_fetch", FALSE))
  /\ out' = [op |-> "fetch_api_key", id |-> NoId, events |-> <<"api_key_fetch_start">>, error |-> "none"]
  /\ UNCHANGED <<api_key, panel, kcalls>>
  /\ KeyFrame

\* a click on the "Create API Key" button, which addCreateAPIKeyButton binds
\* to create_api_key: fetch start, then the POST with the CSRF header
create_api_key ==
  /\ route = "/api-key" /\ panel = "create"
  /\ kcalls < MaxKeyCalls
  /\ kcalls' = kcalls + 1
  /\ kreqs' = kreqs (+) One(KeyReq("key_create", TRUE))
  /\ out' = [op |-> "create_api_key", id |-> NoId, events |-> <<"api_key_fetch_start">>, error |-> "none"]
  /\ UNCHANGED <<mounted, api_key, panel>>
  /\ KeyFrame

\* a click on the "Delete Key" button, which renderExistingKey binds to
\* delete_api_key: fetch start, then the DELETE with the CSRF header
delete_api_key ==
  /\ route = "/api-key" /\ panel = "delete"
  /\ kcalls < MaxKeyCalls
  /\ kcalls' = kcalls + 1
  /\ kreqs' = kreqs (+) One(KeyReq("key_delete", TRUE))
  /\ out' = [op |-> "delete_api_key", id |-> NoId, events |-> <<"api_key_fetch_start">>, error |-> "none"]
  /\ UNCHANGED <<mounted, api_key, panel>>
  /\ KeyFrame

\* the .then / .catch of fetch_api_key: an empty key shows the create
\* button and returns; a key is stored and shown with the delete button
fetch_api_key_done(r, kind) ==
  /\ r \in BagToSet(kreqs)
  /\ r.op = "key_fetch" /\ Completes(r, kind)
  /\ kreqs' = kreqs (-) One(r)
  /\ IF kind # "ok"
     THEN \* not JSON, checkErrorCode threw, or "key" is not in data
          /\ out' = [op |-> "fetch_api_key_done", id |-> NoId, events |-> KeyFailEvents(kind), error |-> Thrown(kind)]
          /\ UNCHANGED <<api_key, panel>>
     ELSE IF r.key = NoKey
          THEN /\ panel' = "create"
               /\ out' = [op |-> "fetch_api_key_done", id |-> NoId,
                          events |-> <<"api_key_fetch_complete", "api_key_render_creation">>, error |-> "none"]
               /\ UNCHANGED api_key
          ELSE /\ api_key' = Stored(r)
               /\ panel' = "delete"
               /\ out' = [op |-> "fetch_api_key_done", id |-> NoId,
                          events |-> <<"api_key_fetch_complete", "api_key_render_existing">>, error |-> "none"]
  /\ UNCHANGED <<mounted, kcalls>>
  /\ KeyFrame

\* the .then / .catch of create_api_key: the raw value is shown by alert,
\* the key is stored and shown with the delete button
create_api_key_done(r, kind) ==
  /\ r \in BagToSet(kreqs)
  /\ r.op = "key_create" /\ Completes(r, kind)
  /\ kreqs' = kreqs (-) One(r)
  /\ IF kind # "ok"
     THEN \* not JSON, checkErrorCode threw, or key / raw_value are not in data
          /\ out' = [op |-> "create_api_key_done", id |-> NoId, events |-> KeyFailEvents(kind), error |-> Thrown(kind)]
          /\ UNCHANGED <<api_key, panel>>
     ELSE /\ api_key' = Stored(r)
          /\ panel' = "delete"
          /\ out' = [op |-> "create_api_key_done", id |-> NoId,
                     events |-> <<"api_key_fetch_complete", "alert", "api_key_render_existing">>, error |-> "none"]
  /\ UNCHANGED <<mounted, kcalls>>
  /\ KeyFrame

\* the .then / .catch of delete_api_key: the create button is shown; the
\* handler assigns nothing to this.api_key
delete_api_key_done(r, kind) ==
  /\ r \in BagToSet(kreqs)
  /\ r.op = "key_delete" /\ Completes(r, kind)
  /\ kreqs' = kreqs (-) One(r)
  /\ IF kind = "nonJSON" \/ checkErrorCode(kind)
     THEN /\ out' = [op |-> "delete_api_key_done", id |-> NoId, events |-> KeyFailEvents(kind), error |-> Thrown(kind)]
          /\ UNCHANGED panel
     ELSE /\ panel' = "create"
          /\ out' = [op |-> "delete_api_key_done", id |-> NoId,
                     events |-> <<"api_key_fetch_complete", "api_key_render_creation">>, error |-> "none"]
  /\ UNCHANGED <<mounted, api_key, kcalls>>
  /\ KeyFrame

\* a step of the backend on /api/v1/api-key touches nothing of the page
KeySrvFrame ==
  /\ out' = NoOut
  /\ UNCHANGED <<route, mounted, api_key, panel, kcalls>>
  /\ UNCHANGED uploadVars /\ UNCHANGED chatVars

\* GET: the key of the organization, the empty key if there is none
srv_key_fetch(r) ==
  /\ r \in BagToSet(kreqs)
  /\ r.op = "key_fetch" /\ r.phase = "sent"
  /\ kreqs' = (kreqs (-) One(r)) (+) One(KeyAnswer(r, ksrv, NoKey))
  /\ UNCHANGED <<ksrv, ksrvNextId>>
  /\ KeySrvFrame

\* POST: a new key, answered with the key object and its raw value
srv_key_create(r) ==
  /\ r \in BagToSet(kreqs)
  /\ r.op = "key_create" /\ r.phase = "sent"
  /\ ksrv' = ksrvNextId
  /\ ksrvNextId' = ksrvNextId + 1
  /\ kreqs' = (kreqs (-) One(r)) (+) One(KeyAnswer(r, ksrvNextId, RawValue(ksrvNextId)))
  /\ KeySrvFrame

\* DELETE: the organization has no key afterwards
srv_key_delete(r) ==
  /\ r \in BagToSet(kreqs)
  /\ r.op = "key_delete" /\ r.phase = "sent"
  /\ ksrv' = NoKey
  /\ kreqs' = (kreqs (-) One(r)) (+) One(KeyAnswer(r, NoKey, NoKey))
  /\ UNCHANGED ksrvNextId
  /\ KeySrvFrame

\* APIKeyService.get_api_key()
get_api_key == api_key

(* ------------------------------- Next --------------------------------- *)
Next ==
  \/ list_urls
  \/ \E value \in Inputs : handleUploadButtonClick(value)
  \/ \E k \in 1..Len(uploads) : delete_url(k)
  \/ \E r \in BagToSet(reqs), kind \in Kinds : list_done(r, kind)
  \/ \E r \in BagToSet(reqs), kind \in Kinds : upload_done(r, kind)
  \/ \E r \in BagToSet(reqs), kind \in Kinds : delete_done(r, kind)
  \/ \E r \in BagToSet(reqs), kind \in Kinds : status_done(r, kind)
  \/ \E id \in BagToSet(timers) : timer_fire(id)
  \/ \E r \in BagToSet(reqs) : srv_list(r)
  \/ \E r \in BagToSet(reqs), status \in Terminal \cup {"IN_PROGRESS"} : srv_create(r, status)
  \/ \E r \in BagToSet(reqs) : srv_status(r)
  \/ \E r \in BagToSet(reqs) : srv_delete(r)
  \/ \E i \in 1..Len(srv), status \in Terminal : srv_finish(i, status)
  \/ toggleState
  \/ postMessage
  \/ \E k \in sends, kind \in Kinds : post_done(k, kind)
  \/ fetch_api_key
  \/ create_api_key
  \/ delete_api_key
  \/ \E r \in BagToSet(kreqs), kind \in Kinds : fetch_api_key_done(r, kind)
  \/ \E r \in BagToSet(kreqs), kind \in Kinds : create_api_key_done(r, kind)
  \/ \E r \in BagToSet(kreqs), kind \in Kinds : delete_api_key_done(r, kind)
  \/ \E r \in BagToSet(kreqs) : srv_key_fetch(r)
  \/ \E r \in BagToSet(kreqs) : srv_key_create(r)
  \/ \E r \in BagToSet(kreqs) : srv_key_delete(r)

Spec == Init /\ [][Next]_vars

(* -------------------------- the API key page ------------------------- *)
InitKey == Init /\ route = "/api-key"

\* the steps of the API key page
NextKey ==
  \/ fetch_api_key
  \/ create_api_key
  \/ delete_api_key
  \/ \E r \in BagToSet(kreqs), kind \in Kinds : fetch_api_key_done(r, kind)
  \/ \E r \in BagToSet(kreqs), kind \in Kinds : create_api_key_done(r, kind)
  \/ \E r \in BagToSet(kreqs), kind \in Kinds : delete_api_key_done(r, kind)
  \/ \E r \in BagToSet(kreqs) : srv_key_fetch(r)
  \/ \E r \in BagToSet(kreqs) : srv_key_create(r)
  \/ \E r \in BagToSet(kreqs) : srv_key_delete(r)

SpecKey == InitKey /\ [][NextKey]_vars

(* ---------------------------- the chat panel -------------------------- *)
InitChat == Init /\ route = "/chat"

\* the steps of the chat panel
NextChat ==
  \/ toggleState
  \/ postMessage
  \/ \E k \in sends, kind \in Kinds : post_done(k, kind)

SpecChat == InitChat /\ [][NextChat]_vars

(* ------------------- polling with fair scheduling --------------------- *)
\* the ids the backend can hand out within the bound of the commands
PollIds == 1..MaxCalls

\* the steps of the page when no request fails: every completion is the
\* one of the body the backend answered
NextPoll ==
  \/ list_urls
  \/ \E value \in Inputs : handleUploadButtonClick(value)
  \/ \E k \in 1..Len(uploads) : delete_url(k)
  \/ \E r \in BagToSet(reqs) : list_done(r, "ok")
  \/ \E r \in BagToSet(reqs) : upload_done(r, "ok")
  \/ \E r \in BagToSet(reqs) : delete_done(r, "ok")
  \/ \E r \in BagToSet(reqs) : status_done(r, "ok")
  \/ \E id \in BagToSet(timers) : timer_fire(id)
  \/ \E r \in BagToSet(reqs) : srv_list(r)
  \/ \E r \in BagToSet(reqs), status \in Terminal \cup {"IN_PROGRESS"} : srv_create(r, status)
  \/ \E r \in BagToSet(reqs) : srv_status(r)
  \/ \E r \in BagToSet(reqs) : srv_delete(r)
  \/ \E i \in 1..Len(srv), status \in Terminal : srv_finish(i, status)

\* the event loop runs every expired timer and every settled promise, and
\* the backend answers every status request it can answer
PollFairness ==
  \A id \in PollIds :
    /\ WF_vars(timer_fire(id))
    /\ WF_vars(\E r \in BagToSet(reqs) : r.id = id /\ srv_status(r))
    /\ WF_vars(\E r \in BagToSet(reqs) : r.id = id /\ status_done(r, "ok"))

\* the uploads page
InitPoll == Init /\ route = "/uploads"

SpecPoll == InitPoll /\ [][NextPoll]_vars /\ PollFairness

(* ------------------------------ properties ---------------------------- *)
ServerIds == 1..(srvNextId - 1)

\* C1: no two entries of the uploads collection share a server-assigned id.
C1_UniqueIds ==
  \A i, j \in 1..Len(uploads) :
    (i # j /\ uploads[i].id # NoId) => uploads[i].id # uploads[j].id

\* C2: for every upload id at most one poll loop (a status request in flight
\* or a pending timer) is alive.
C2_AtMostOnePoll ==
  \A id \in ServerIds : PollCount(reqs, timers, id) <= 1

\* C3: a successful list starts one poll loop for every record of the
\* response that is IN_PROGRESS and none for a record that is COMPLETE or
\* FAILED.
C3_ListPollsOnlyInProgress ==
  [][\A r \in BagToSet(reqs) :
       list_done(r, "ok") =>
         \A i \in 1..Len(r.data) :
           PollCount(reqs', timers', r.data[i].id)
             - PollCount(reqs, timers, r.data[i].id)
           = IF r.data[i].status = "IN_PROGRESS" THEN 1 ELSE 0]_vars

\* the record of an id in a collection is the one findIndex finds
TerminalIn(s, id) ==
  FindIndex(s, id) > 0 /\ s[FindIndex(s, id)].status \in Terminal

\* C4: once the collection holds the record of an id in COMPLETE or FAILED,
\* no step brings the record of that id back to a non-terminal status.
C4_TerminalStays ==
  [][\A id \in ServerIds :
       (TerminalIn(uploads, id) /\ id \in IdsOf(uploads'))
       => TerminalIn(uploads', id)]_vars

\* C5: a status check that returns a terminal status for an id present in the
\* collection replaces the entry at that id's position by the returned
\* record; the length and all other entries are unchanged.
C5_TerminalReplacesInPlace ==
  [][\A r \in BagToSet(reqs) :
       (/\ status_done(r, "ok")
        /\ r.data[1].status \in Terminal
        /\ r.data[1].id \in IdsOf(uploads))
       => LET i == FindIndex(uploads, r.data[1].id)
          IN /\ Len(uploads') = Len(uploads)
             /\ uploads'[i].id = r.data[1].id
             /\ uploads'[i].status = r.data[1].status
             /\ \A j \in 1..Len(uploads) : j # i => uploads'[j] = uploads[j]]_vars

\* C5 happens: a status check has just put a terminal record in the place of
\* the IN_PROGRESS entry of its id.
C5_Witness ==
  /\ out.op = "status_done"
  /\ out.events = <<"render_uploads">>
  /\ Len(uploads) >= 2
  /\ \E i \in 1..Len(uploads) : uploads[i].id = out.id /\ uploads[i].status \in Terminal
  /\ \E i \in 1..Len(uploads) : uploads[i].id # out.id

\* C6: after the delete of a record succeeds, the collection holds no record
\* with the id of that record.
C6_DeleteRemovesId ==
  [][\A r \in BagToSet(reqs) :
       delete_done(r, "ok") => r.id \notin IdsOf(uploads')]_vars

\* C7: once the delete of id i has succeeded, no poll loop of i is alive.
C7_DeleteStopsPolling ==
  [][\A r \in BagToSet(reqs) :
       delete_done(r, "ok") => PollCount(reqs', timers', r.id) = 0]_vars

\* C8: the completion of a status check for an id that is no longer in the
\* collection leaves every entry of the collection as it is.
C8_StaleCheckDiscarded ==
  [][\A r \in BagToSet(reqs), kind \in Kinds :
       (status_done(r, kind) /\ r.id \notin IdsOf(uploads))
       => uploads' = uploads]_vars

\* C9: a status check that returns a terminal status for an id that is not in
\* the collection shows the inconsistency: the alert is raised.
C9_MissingIdAlerts ==
  [][\A r \in BagToSet(reqs) :
       (/\ status_done(r, "ok")
        /\ r.data[1].status \in Terminal
        /\ r.data[1].id \notin IdsOf(uploads))
       => /\ out'.events # <<>>
          /\ out'.events[1] = "alert"
          /\ out'.id = r.data[1].id]_vars

\* C9 happens: a status check has just found the id of its terminal record
\* missing from the collection.
C9_Witness ==
  /\ out.op = "status_done"
  /\ out.id # NoId
  /\ out.id \notin IdsOf(uploads)
  /\ out.events = <<"alert", "render_uploads">>

\* the log without the human message of the k-th post
WithoutHuman(s, k) ==
  SelectSeq(s, LAMBDA m : ~(m.text = k /\ m.message_creator_type = "HUMAN"))

\* C10: a failed send removes exactly the human message that this send
\* appended; every other entry of the log stays in place.
C10_FailedSendRemovesOwnMessage ==
  [][\A k \in sends :
       post_done(k, "nonJSON") => chatMessages' = WithoutHuman(chatMessages, k)]_vars

\* the position of the human message of the k-th post in the log, 0 if none
HumanIndex(s, k) ==
  Min({i \in 1..Len(s) : s[i].text = k /\ s[i].message_creator_type = "HUMAN"}
      \cup {Len(s) + 1}) % (Len(s) + 1)

\* C11: when the k-th send succeeds, the human message of that send is the
\* one that gets the created stamp, and the reply stands directly after it,
\* however many sends are in flight.
C11_ReplyFollowsOwnMessage ==
  [][\A k \in sends :
       (post_done(k, "ok") /\ HumanIndex(chatMessages, k) > 0)
       => LET i == HumanIndex(chatMessages', k)
          IN /\ i > 0 /\ i < Len(chatMessages')
             /\ chatMessages'[i].created # "null"
             /\ chatMessages'[i + 1] = Reply(k, "ok")]_vars

\* C12: when a send fails, the userport_post_message_end event emitted for
\* it carries the error of the failure.
C12_EndEventCarriesError ==
  [][\A k \in sends :
       post_done(k, "nonJSON")
       => \E i \in 1..Len(out'.events) :
            /\ out'.events[i] = "userport_post_message_end"
            /\ EventDetail(out'.events[i]) = "error"]_vars

\* the number of times event e stands in a sequence of events
CountOf(e, s) == Cardinality({i \in 1..Len(s) : s[i] = e})

\* C13: a send pushes its human message and emits the start event in the
\* step that issues its request; the request of a send ends only by a step
\* that emits the end event exactly once, on success and on failure, and no
\* other step emits an end event.
C13_OneEndPerSend ==
  [][/\ postMessage
        => /\ chatMessages' = Append(chatMessages, HumanMessage(sent'))
           /\ out'.events = <<"userport_post_message_start">>
           /\ sends' = sends \cup {sent'} /\ sent' \notin sends
     /\ \A k \in sends :
          k \notin sends'
          => /\ CountOf("userport_post_message_end", out'.events) = 1
             /\ out'.id = k /\ sends' = sends \ {k}
     /\ sends' \cap sends = sends
        => CountOf("userport_post_message_end", out'.events) = 0]_vars

\* C13 happens: a send has just failed and emitted its end event while
\* another send is still in flight.
C13_Witness ==
  /\ out.op = "post_done"
  /\ out.events = <<"userport_post_message_end", "reject">>
  /\ sends # {}

\* C14: the completion of every list, create and delete request emits
\* fetch_complete exactly once, whatever its outcome.
C14_OneFetchEndPerCommand ==
  [][\A r \in BagToSet(reqs), kind \in Kinds :
       (list_done(r, kind) \/ upload_done(r, kind) \/ delete_done(r, kind))
       => CountOf("fetch_complete", out'.events) = 1]_vars

C16_CreateAppendsOne ==
  [][\A r \in BagToSet(reqs) :
       upload_done(r, "ok")
       => /\ Len(uploads') = Len(uploads) + 1
          /\ uploads'[Len(uploads')].id = r.data[1].id
          /\ uploads'[Len(uploads')].status = r.data[1].status
          /\ SubSeq(uploads', 1, Len(uploads)) = uploads
          /\ CountOf("render_uploads", out'.events) = 1]_vars

\* C16 happens: a successful create has just added its record behind a
\* record that was there before.
C16_Witness ==
  /\ out.op = "upload_done"
  /\ out.id # NoId
  /\ out.events = <<"fetch_complete", "render_uploads">>
  /\ Len(uploads) >= 2
  /\ uploads[Len(uploads)].id = out.id

\* C17: after a successful create a status check of the new record is
\* issued if and only if the status of the response is not terminal.
C17_CreatePollsOnlyInProgress ==
  [][\A r \in BagToSet(reqs) :
       upload_done(r, "ok")
       => PollCount(reqs', timers', r.data[1].id)
            - PollCount(reqs, timers, r.data[1].id)
          = IF r.data[1].status \in Terminal THEN 0 ELSE 1]_vars

\* C18: after a successful list response the collection is the sequence of
\* the response: the same length, and at every position the id and the
\* status of the response; an id held before that the response lacks is gone.
C18_ListReplacesWholesale ==
  [][\A r \in BagToSet(reqs) :
       list_done(r, "ok")
       => /\ Len(uploads') = Len(r.data)
          /\ \A i \in 1..Len(r.data) :
               /\ uploads'[i].id = r.data[i].id
               /\ uploads'[i].status = r.data[i].status
               /\ uploads'[i].error_code = "none"
          /\ \A id \in IdsOf(uploads) \ IdsOf(r.data) : id \notin IdsOf(uploads')]_vars

\* C18 happens: a list response with a record has just replaced the
\* collection.
C18_Witness ==
  /\ out.op = "list_done"
  /\ out.events = <<"fetch_complete", "render_uploads">>
  /\ uploads # <<>>

\* C19: a response of list, create or delete that carries error_code and
\* message ends in an error and leaves the success path: the collection is
\* unchanged, render_uploads is not emitted, and no status request and no
\* timer is added.
C19_DomainErrorAbandons ==
  [][\A r \in BagToSet(reqs) :
       (\/ list_done(r, "domainErr")
        \/ upload_done(r, "domainErr")
        \/ delete_done(r, "domainErr"))
       => /\ CountOf("reject", out'.events) = 1
          /\ uploads' = uploads
          /\ CountOf("render_uploads", out'.events) = 0
          /\ reqs' = reqs (-) One(r)
          /\ timers' = timers]_vars

\* C19 happens: a create or delete has just ended in the error thrown by
\* checkErrorCode inside the .then handler, with a record in the collection.
C19_Witness ==
  /\ out.op \in {"upload_done", "delete_done"}
  /\ out.events = <<"fetch_complete", "fetch_complete", "reject">>
  /\ uploads # <<>>

C28_TerminalStopsLoop ==
  [][\A r \in BagToSet(reqs) :
       (status_done(r, "ok") /\ r.data[1].status \in Terminal)
       => /\ timers' = timers
          /\ reqs' = reqs (-) One(r)]_vars

\* C28 happens: a status check has just returned a terminal status and no
\* request or timer of that id is left.
C28_Witness ==
  /\ out.op = "status_done"
  /\ out.id # NoId
  /\ out.events = <<"render_uploads">>
  /\ PollCount(reqs, timers, out.id) = 0

\* C29: after a status check has returned IN_PROGRESS, one more timer of
\* that id is pending and nothing else has changed: no request is added,
\* the collection is as before and no event is emitted; the timer, when it
\* expires, issues the next status request of that id, without any count.
C29_InProgressReschedulesOnce ==
  [][/\ \A r \in BagToSet(reqs) :
          (status_done(r, "ok") /\ r.data[1].status = "IN_PROGRESS")
          => /\ timers' = timers (+) One(r.id)
             /\ reqs' = reqs (-) One(r)
             /\ uploads' = uploads
             /\ out'.events = <<>>
     /\ \A id \in BagToSet(timers) :
          timer_fire(id)
          => /\ reqs' = reqs (+) One(StatusReq(id))
             /\ timers' = timers (-) One(id)]_vars

\* C29 happens: a status check has just answered IN_PROGRESS and its timer
\* is pending.
C29_Witness ==
  /\ out.op = "status_done"
  /\ out.events = <<>>
  /\ BagIn(out.id, timers)

\* the status requests and the timers of the ids other than id
OtherPolls(rq, t, id) ==
  [i \in ServerIds \ {id} |-> <<StatusReqs(rq, i), CopiesIn(i, t)>>]

\* C30: a step of the poll loop of one id, be it a terminal result, a
\* reschedule, a failure or the expiry of its timer, leaves the status
\* requests and the timers of every other id as they are.
C30_PollLoopsIndependent ==
  [][/\ \A r \in BagToSet(reqs), kind \in Kinds :
          status_done(r, kind)
          => OtherPolls(reqs', timers', r.id) = OtherPolls(reqs, timers, r.id)
     /\ \A id \in BagToSet(timers) :
          timer_fire(id)
          => OtherPolls(reqs', timers', id) = OtherPolls(reqs, timers, id)]_vars

\* C30 happens: the poll loop of one id has just rescheduled while a timer
\* of another id is pending.
C30_Witness ==
  /\ out.op = "status_done"
  /\ out.events = <<>>
  /\ BagIn(out.id, timers)
  /\ \E id \in BagToSet(timers) : id # out.id

\* every entry of the collection with that id is COMPLETE or FAILED
AllTerminal(s, id) ==
  \A i \in 1..Len(s) : s[i].id = id => s[i].status \in Terminal

\* C27: when no status check fails, for every id that stays in the
\* collection and whose status on the server is terminal from some point on,
\* eventually the collection shows that id as terminal and no status request
\* or timer of it is left.
C27_PollingConverges ==
  \A id \in PollIds :
    (<>[](TerminalIn(srv, id)) /\ <>[](id \in IdsOf(uploads)))
    => <>(/\ id \in IdsOf(uploads)
          /\ AllTerminal(uploads, id)
          /\ PollCount(reqs, timers, id) = 0)

\* C23: after a successful delete of the API key the service holds no key:
\* get_api_key() returns null.
C23_DeleteClearsKey ==
  [][\A r \in BagToSet(kreqs) :
       delete_api_key_done(r, "ok") => get_api_key' = NoKey]_vars

\* C24: after a successful create the service holds the key object of the
\* response, and the event of an existing key is emitted once.
C24_CreateStoresKey ==
  [][\A r \in BagToSet(kreqs) :
       create_api_key_done(r, "ok")
       => /\ get_api_key' = r.key
          /\ get_api_key' # NoKey
          /\ CountOf("api_key_render_existing", out'.events) = 1
          /\ CountOf("api_key_render_creation", out'.events) = 0]_vars

\* C24 happens: a create has just stored the key that the backend holds.
C24_Witness ==
  /\ out.op = "create_api_key_done"
  /\ CountOf("api_key_render_existing", out.events) = 1
  /\ api_key # NoKey /\ api_key = ksrv

\* the raw secrets the backend can hand out
RawValues == {RawValue(n) : n \in 1..(MaxKeyCalls + 1)}

\* C25: in every reachable state the key held by the service is no raw
\* secret; the raw value of a create goes to the alert only.
C25_RawValueNotKept ==
  api_key \notin RawValues

\* C25 happens: a second key has been created and its raw value shown.
C25_Witness ==
  /\ out.op = "create_api_key_done"
  /\ CountOf("alert", out.events) = 1
  /\ kcalls >= 2
  /\ api_key # NoKey

TransportFailure ==
  /\ CountOf("reject", out'.events) = 1
  /\ out'.error = "status: Server error"
  /\ uploads' = uploads /\ timers' = timers
  /\ api_key' = api_key /\ panel' = panel
  /\ Len(chatMessages') <= Len(chatMessages)

\* C21: at every operation a body that is not JSON ends in the error that
\* carries the HTTP status and is not applied as data: the uploads
\* collection and the API key are unchanged and no message is added.
C21_NonJSONIsTransportError ==
  [][/\ \A r \in BagToSet(reqs) :
          (\/ list_done(r, "nonJSON") \/ upload_done(r, "nonJSON")
           \/ delete_done(r, "nonJSON") \/ status_done(r, "nonJSON"))
          => TransportFailure
     /\ \A k \in sends : post_done(k, "nonJSON") => TransportFailure
     /\ \A r \in BagToSet(kreqs) :
          (\/ fetch_api_key_done(r, "nonJSON") \/ create_api_key_done(r, "nonJSON")
           \/ delete_api_key_done(r, "nonJSON"))
          => TransportFailure]_vars

\* C21 happens: a create has just failed on a body that is not JSON, with a
\* record in the collection.
C21_Witness ==
  /\ out.op = "upload_done"
  /\ out.error = "status: Server error"
  /\ uploads # <<>>

\* the outcome of a step is a rejection with its error
Rejection ==
  CountOf("reject", out'.events) = 1 /\ out'.error # "none"

\* C22: every operation whose response is a transport error (a body that is
\* not JSON) or a domain error (error_code with message) ends in a rejection.
C22_ErrorsAreRejections ==
  [][\A kind \in {"nonJSON", "domainErr"} :
       /\ \A r \in BagToSet(reqs) :
            (\/ list_done(r, kind) \/ upload_done(r, kind)
             \/ delete_done(r, kind) \/ status_done(r, kind))
            => Rejection
       /\ \A k \in sends : post_done(k, kind) => Rejection
       /\ \A r \in BagToSet(kreqs) :
            (\/ fetch_api_key_done(r, kind) \/ create_api_key_done(r, kind)
             \/ delete_api_key_done(r, kind))
            => Rejection]_vars

\* number of status requests in flight for an id
StatusCount(rq, id) == BagCardinality(StatusReqs(rq, id))

\* C31: a successful list or create that starts a poller for an IN_PROGRESS
\* record issues no status request in that step: the first request of the
\* poller comes only after the interval, from the timer.
C31_FirstCheckAfterInterval ==
  [][\A r \in BagToSet(reqs) :
       (list_done(r, "ok") \/ upload_done(r, "ok"))
       => \A i \in 1..Len(r.data) :
            r.data[i].status = "IN_PROGRESS"
            => StatusCount(reqs', r.data[i].id) = StatusCount(reqs, r.data[i].id)]_vars

\* C32: toggleState() changes the panel state and nothing else: the message
\* log, the sends in flight and the count of posts stay as they were, and
\* the step emits no event, whether or not a send is in flight.
C32_ToggleTouchesOnlyPanel ==
  [][toggleState =>
       /\ chatState' # chatState
       /\ chatMessages' = chatMessages
       /\ sends' = sends /\ sent' = sent
       /\ out'.events = <<>> /\ out'.error = "none"
       /\ reqs' = reqs /\ kreqs' = kreqs /\ timers' = timers]_vars

\* C32 happens: the panel has just been toggled while a send is in flight
\* and the log is not empty.
C32_Witness ==
  /\ out.op = "toggleState"
  /\ sends # {}
  /\ chatMessages # <<>>

ChatStates == {"OPEN", "CLOSED"}

\* C39: the panel state starts CLOSED and is always OPEN or CLOSED; every
\* toggleState() returns the state it has just set, which differs from the
\* one before, and a second toggle from there gives the first state back.
C39_ToggleIsInvolution ==
  /\ chatState = "CLOSED"
  /\ [][toggleState =>
          /\ chatState \in ChatStates /\ chatState' \in ChatStates
          /\ out'.ret = chatState'
          /\ chatState' # chatState
          /\ Toggled(chatState') = chatState]_vars

\* C39 happens: a toggle has just returned CLOSED, so the panel, which
\* starts CLOSED, was opened by one toggle and closed again by another.
C39_Witness ==
  /\ out.op = "toggleState"
  /\ out.ret = "CLOSED"
  /\ chatState = "CLOSED"

\* the steps that run a .then / .catch handler of the uploads service
CompletionOps == {"list_done", "upload_done", "delete_done", "status_done"}

\* C33: when list_urls, upload_url or delete_url returns to its caller the
\* uploads collection is what it was before the call; the collection changes
\* only in a step that processes a completion.
C33_CommandsReturnBeforeChange ==
  [][/\ (list_urls \/ upload_url \/ \E k \in 1..Len(uploads) : delete_url(k))
        => uploads' = uploads
     /\ uploads' # uploads => out'.op \in CompletionOps]_vars

\* C33 happens: delete_url has just returned; its request is in flight and
\* the entry it is about is still in the collection.
C33_Witness ==
  /\ out.op = "delete_url"
  /\ out.id \in IdsOf(uploads)
  /\ \E r \in BagToSet(reqs) : r.op = "delete" /\ r.id = out.id

\* the operations that change something on the server
Mutating == {"create", "delete", "key_create", "key_delete"}

\* C34: every request in flight of a mutating operation (upload create and
\* delete, API key create and delete) carries the X-CSRFToken header and
\* every read (list, status check, API key fetch) goes without it; the POST
\* of a chat send carries the header too.
C34_MutatingCarryToken ==
  /\ \A r \in BagToSet(reqs) \cup BagToSet(kreqs) : r.csrf = (r.op \in Mutating)
  /\ out.op = "postMessage" => "X-CSRFToken" \in out.headers

\* the kinds of failure of a status check: a body that is not JSON and an
\* error envelope with error_code and message
CheckFailures == {"nonJSON", "domainErr"}

\* C35: a status check that fails with a transport error or a domain error
\* envelope leaves the collection as it is, schedules no timer and issues no
\* request: its poll loop ends, and an IN_PROGRESS record of its id stays
\* IN_PROGRESS in the collection.
C35_FailedCheckEndsLoop ==
  [][\A r \in BagToSet(reqs), kind \in CheckFailures :
       status_done(r, kind)
       => /\ uploads' = uploads
          /\ timers' = timers
          /\ reqs' = reqs (-) One(r)
          /\ PollCount(reqs', timers', r.id) = PollCount(reqs, timers, r.id) - 1]_vars

\* C35 happens: a status check has just failed, no poll loop is left for
\* its id, and the collection still shows the record IN_PROGRESS.
C35_Witness ==
  /\ out.op = "status_done"
  /\ out.error # "none"
  /\ PollCount(reqs, timers, out.id) = 0
  /\ \E i \in 1..Len(uploads) :
       uploads[i].id = out.id /\ uploads[i].status = "IN_PROGRESS"

\* the statuses of a resource record
Statuses == Terminal \cup {"IN_PROGRESS"}

\* C36: every entry of the uploads collection is a record with an id the
\* server assigned and a status among IN_PROGRESS, COMPLETE and FAILED (no
\* error envelope is stored), and no status check in flight is for an
\* undefined id.
C36_OnlyRecordsStored ==
  /\ \A i \in 1..Len(uploads) :
       uploads[i].id # NoId /\ uploads[i].status \in Statuses
  /\ \A r \in BagToSet(reqs) : r.op = "status" => r.id # NoId

\* C37: every step that changes the uploads collection is the processing of
\* a completion that ends by dispatching render_uploads, whose listeners
\* read the collection as the step leaves it; no change of the collection
\* goes without that event.
C37_ChangeIsRendered ==
  [][uploads' # uploads
     => /\ out'.op \in CompletionOps
        /\ out'.events # <<>>
        /\ out'.events[Len(out'.events)] = "render_uploads"
        /\ out'.seen = uploads']_vars

\* C37 happens: a delete has just taken its entry out of the collection and
\* render_uploads was dispatched on the collection without it.
C37_Witness ==
  /\ out.op = "delete_done"
  /\ out.error = "none"
  /\ out.events = <<"fetch_complete", "render_uploads">>
  /\ out.id \notin IdsOf(uploads)
  /\ out.seen = uploads

\* the two events that make the view show a key or the create button
KeyRenders == {"api_key_render_creation", "api_key_render_existing"}

\* a fetch or a create fails on a body that is not JSON, on a domain error
\* envelope and on a body without the key fields; a delete, which reads no
\* field of its response, on the first two
KeyFails(r, kind) ==
  \/ fetch_api_key_done(r, kind)
  \/ create_api_key_done(r, kind)
  \/ kind \in CheckFailures /\ delete_api_key_done(r, kind)

\* C38: a fetch, create or delete of the API key that fails leaves the
\* stored key as it was and emits neither api_key_render_existing nor
\* api_key_render_creation, so the view keeps showing what it showed.
C38_FailedKeyCallKeepsKey ==
  [][\A r \in BagToSet(kreqs), kind \in ErrKinds :
       KeyFails(r, kind)
       => /\ api_key' = api_key
          /\ panel' = panel
          /\ out'.error # "none"
          /\ \A i \in 1..Len(out'.events) : out'.events[i] \notin KeyRenders]_vars

\* C38 happens: a delete has just failed while a key is stored; the key and
\* the delete button are still there.
C38_Witness ==
  /\ out.op = "delete_api_key_done"
  /\ out.error # "none"
  /\ api_key # NoKey
  /\ panel = "delete"

====
